---- MODULE Spec2Model ----
(***************************************************************************)
(* vt_mvp: English -> German video translation pipeline.                   *)
(*                                                                         *)
(* Three specifications over one set of variables:                         *)
(*   Spec     create_final_video (src/src/video_editor.py) called on       *)
(*            arbitrary position-aligned segments and audio items;         *)
(*   PipeSpec the pipeline body of app.py (lines 67-128) with both         *)
(*            credentials passed as arguments, the process environment     *)
(*            left open;                                                   *)
(*   AppSpec  the Streamlit script app.py, rerun on every interaction,     *)
(*            credentials read from the environment (app.py:15-17).        *)
(*                                                                         *)
(* Time is in seconds.  Durations computed by the code are floats; here    *)
(* they are exact rationals <<num, den>> in lowest terms, den > 0.  The    *)
(* float error of one division (2^-53 relative) is below every tolerance   *)
(* the properties mention and is not modelled.                             *)
(***************************************************************************)
EXTENDS Integers, Sequences, FiniteSets, TLC

VARIABLES
    \* ---- create_final_video(video_path, segments, audio_items, out_path)
    videoDur,      \* duration of the source video file
    segments,      \* argument: sequence of Segment
    audio_items,   \* argument: sequence of {"index","path","duration"}
    pc,            \* position inside create_final_video
    base_clip,     \* "unopened" | "open" | "closed"  (VideoFileClip handle)
    subclips,      \* the list built by the loop
    final_clip,    \* the concatenation: [duration, timeline], or NoClip
    err,           \* exception that ended the call or the run, or "none"
    \* ---- files
    audioFiles,    \* files under output/audio: path -> measured duration
    outVideo,      \* output/final_video_de.mp4 : [state, duration]
    outAudio,      \* output/final_audio_de.mp3 : "absent"|"partial"|"complete"
    tmpdir,        \* the run's TemporaryDirectory exists
    written,       \* files written since the last Run click (or call)
    \* ---- the pipeline body, app.py:67-128
    stage,         \* the step about to execute; "idle" when no run is active
    srt,           \* the uploaded subtitle file, as srt.parse reads it
    app_segments,  \* app.py `segments`: what load_srt returned
    out,           \* translate_segments' list `out`
    segments_de,   \* app.py `segments_de`
    sampleClip,    \* step 3's VideoFileClip handle
    vg,            \* the VoiceGenerator object
    voice_id,      \* app.py `voice_id`
    results,       \* generate_audio_segments' list `results`
    \* ---- the script and its session
    env,           \* os.environ after load_dotenv()
    keys,          \* OPENAI_API_KEY, ELEVEN_API_KEY as the pipeline holds them
    uploaded,      \* uploaded_video, uploaded_srt present
    session,       \* st.session_state
    run,           \* st.button(...): this script run came from a Run click
    outcome,       \* how this script run ended
    message,       \* what the page shows the user about the run
    stagesRun,     \* pipeline steps executed since the last Run click
    displayed      \* the result block (app.py:133-154) was rendered

\* the state of one create_final_video call
cfvVars == <<pc, base_clip, subclips, final_clip, segments, audio_items>>

\* what a script run reads and never changes
inputVars == <<videoDur, srt, env, keys, uploaded, run>>

fileVars == <<audioFiles, outVideo, outAudio, written>>

\* the locals of the pipeline body
dataVars == <<app_segments, out, segments_de, sampleClip, vg, voice_id,
              results>>

ctlVars == <<stage, tmpdir, outcome, message, displayed, stagesRun>>

vars == <<cfvVars, inputVars, fileVars, dataVars, ctlVars, session, err>>

----------------------------------------------------------------------------
\* Bounds of the model

\* longest segment / audio-item list drawn
MaxN == 2

\* segment start times drawn (seconds)
Starts == {0, 6}

\* natural slice durations end - start drawn (seconds)
VideoDurs == {0, 4, 5}

\* measured audio clip durations drawn (seconds)
AudioDurs == {0, 4, 5}

\* source video durations drawn (seconds)
SourceDurs == {5, 11}

----------------------------------------------------------------------------
\* Exact rational arithmetic on <<num, den>>

RECURSIVE GCD(_, _)
GCD(a, b) == IF b = 0 THEN a ELSE GCD(b, a % b)

Rat(n, d) == LET g == GCD(n, d) IN <<n \div g, d \div g>>

NoRat == <<>>

FromInt(n) == <<n, 1>>

RatAdd(x, y) == Rat(x[1] * y[2] + y[1] * x[2], x[2] * y[2])

RatSub(x, y) == <<x[1] * y[2] - y[1] * x[2], x[2] * y[2]>>

RatLeq(x, y) == x[1] * y[2] <= y[1] * x[2]

RatAbs(x) == <<IF x[1] < 0 THEN -x[1] ELSE x[1], x[2]>>

RECURSIVE RatSum(_)
RatSum(s) == IF s = <<>> THEN FromInt(0) ELSE RatAdd(Head(s), RatSum(Tail(s)))

----------------------------------------------------------------------------
\* Data model

Segment(index, start, end, text) ==
    [index |-> index, start |-> start, end |-> end, text |-> text]

AudioItem(index, path, duration) ==
    [index |-> index, path |-> path, duration |-> duration]

\* os.path.join(out_dir, f"seg_{seg.index:04d}.mp3"): one path per index
SegPath(index) == <<"seg", index>>

\* out_path = "output/final_video_de.mp4"
FinalVideoPath == <<"final_video_de.mp4", 0>>

\* audio_out_path = "output/final_audio_de.mp3"
FinalAudioPath == <<"final_audio_de.mp3", 0>>

NoPath == <<>>

----------------------------------------------------------------------------
\* create_final_video: the library calls it makes (MoviePy 1.0.3)

Min(a, b) == IF a <= b THEN a ELSE b

\* base_clip.subclip(start_t, end_t): ValueError when start_t lies beyond the
\* clip; otherwise a clip of duration end_t - start_t
Subclip(clipDur, start_t, end_t) ==
    IF start_t > clipDur
    THEN [err |-> "ValueError", duration |-> NoRat]
    ELSE [err |-> "none", duration |-> FromInt(end_t - start_t)]

\* AudioFileClip(audio_item["path"]).duration: read from the file itself
AudioFileClipDuration(files, path) ==
    IF path \in DOMAIN files
    THEN [err |-> "none", duration |-> files[path]]
    ELSE [err |-> "IOError", duration |-> NoRat]

\* float division x / y: ZeroDivisionError when y is 0
Divide(x, y) ==
    IF y[1] = 0
    THEN [err |-> "ZeroDivisionError", value |-> NoRat]
    ELSE [err |-> "none", value |-> Rat(x[1] * y[2], x[2] * y[1])]

\* the guard without its seg_audio_dur > 0 conjunct
NeedsSpeedChange_unguarded(seg_video_dur, seg_audio_dur) ==
    seg_audio_dur # seg_video_dur

\* if seg_audio_dur != seg_video_dur and seg_audio_dur > 0:
NeedsSpeedChange(seg_video_dur, seg_audio_dur) ==
    seg_audio_dur # seg_video_dur /\ ~RatLeq(seg_audio_dur, FromInt(0))

\* the quotient taken the other way round
SpeedFactor_inverted(seg_video_dur, seg_audio_dur) ==
    Divide(seg_audio_dur, seg_video_dur)

\* factor = seg_video_dur / seg_audio_dur
SpeedFactor(seg_video_dur, seg_audio_dur) == Divide(seg_video_dur, seg_audio_dur)

\* the duration multiplied by the factor instead of divided
Speedx_multiplies(duration, factor) ==
    [err |-> "none", value |-> Rat(duration[1] * factor[1], duration[2] * factor[2])]

\* vfx.speedx(clip, factor): set_duration(1.0 * clip.duration / factor)
Speedx(duration, factor) == Divide(duration, factor)

\* segment_clip.set_audio(seg_audio): the clip with its audio track replaced;
\* its duration stays what it was.  The slice as it is appended.
SetAudio(seg, path, sped, factor, duration) ==
    [start |-> seg.start, end |-> seg.end, audio |-> path, sped |-> sped,
     factor |-> factor, duration |-> duration]

\* One pass of the loop body for the pair (seg, audio_item): the exception it
\* raises, or the slice it appends
LoopBody(clipDur, files, seg, audio_item) ==
    LET sub == Subclip(clipDur, seg.start, seg.end)
        aud == AudioFileClipDuration(files, audio_item.path)
    IN  IF sub.err # "none" THEN [err |-> sub.err]
        ELSE IF aud.err # "none" THEN [err |-> aud.err]
        ELSE IF NeedsSpeedChange(sub.duration, aud.duration)
        THEN LET factor == SpeedFactor(sub.duration, aud.duration)
             IN  IF factor.err # "none" THEN [err |-> factor.err]
                 ELSE LET fx == Speedx(sub.duration, factor.value)
                      IN  IF fx.err # "none" THEN [err |-> fx.err]
                          ELSE [err |-> "none",
                                slice |-> SetAudio(seg, audio_item.path, TRUE,
                                                   factor.value, fx.value)]
        ELSE [err |-> "none",
              slice |-> SetAudio(seg, audio_item.path, FALSE, NoRat,
                                 sub.duration)]

NoClip == [duration |-> NoRat, timeline |-> <<>>]

\* zip(segments, audio_items): pairs by position, up to the shorter list
ZipLen(segs, items) == Min(Len(segs), Len(items))

\* the audio item looked up by the segment's index field, not by position
ZipPair_by_index(segs, items, k) ==
    [seg |-> segs[k],
     audio_item |-> items[CHOOSE j \in 1..Len(items) : items[j].index = segs[k].index]]

\* the k-th pair zip yields
ZipPair(segs, items, k) == [seg |-> segs[k], audio_item |-> items[k]]

\* the clips laid out on the source's own timestamps: each clip takes the
\* length of its window, whatever its playback speed
ConcatenateVideoclips_source_times(clips) ==
    IF clips = <<>>
    THEN [err |-> "ValueError", clip |-> NoClip]
    ELSE [err |-> "none",
          clip |-> [duration |->
                        RatSum([k \in 1..Len(clips) |->
                                   FromInt(clips[k].end - clips[k].start)]),
                    timeline |->
                        [k \in 1..Len(clips) |->
                            [t_start |-> RatSum([j \in 1..(k - 1) |->
                                        FromInt(clips[j].end - clips[j].start)]),
                             clip |-> clips[k]]]]]

\* concatenate_videoclips(subclips, method="compose"): the clips laid end to
\* end in list order, clip k starting where clips 1..k-1 end (tt = cumsum of
\* the durations); max() over an empty list raises ValueError
ConcatenateVideoclips(clips) ==
    IF clips = <<>>
    THEN [err |-> "ValueError", clip |-> NoClip]
    ELSE [err |-> "none",
          clip |-> [duration |->
                        RatSum([k \in 1..Len(clips) |-> clips[k].duration]),
                    timeline |->
                        [k \in 1..Len(clips) |->
                            [t_start |-> RatSum([j \in 1..(k - 1) |->
                                                    clips[j].duration]),
                             clip |-> clips[k]]]]]

\* frames per second of the rendered file
Fps == 24

\* write_videofile(..., fps=24): one frame per 1/fps of the clip, the last
\* partial frame period included
RenderedDuration(d) == Rat((d[1] * Fps + d[2] - 1) \div d[2], Fps)

----------------------------------------------------------------------------
\* create_final_video: the steps

\* ensure_dir(...); base_clip = VideoFileClip(video_path); subclips = []
CFV_Open ==
    /\ pc = "entry"
    /\ base_clip' = "open"
    /\ subclips' = <<>>
    /\ pc' = "loop"
    /\ UNCHANGED <<final_clip, segments, audio_items, inputVars, fileVars,
                   dataVars, ctlVars, session, err>>

\* for seg, audio_item in zip(segments, audio_items): ...
CFV_Iterate ==
    /\ pc = "loop"
    /\ Len(subclips) < ZipLen(segments, audio_items)
    /\ LET pair == ZipPair(segments, audio_items, Len(subclips) + 1)
           r == LoopBody(videoDur, audioFiles, pair.seg, pair.audio_item)
       IN  IF r.err # "none"
           THEN /\ pc' = "raised"
                /\ err' = r.err
                /\ UNCHANGED subclips
           ELSE /\ subclips' = Append(subclips, r.slice)
                /\ UNCHANGED <<pc, err>>
    /\ UNCHANGED <<base_clip, final_clip, segments, audio_items, inputVars,
                   fileVars, dataVars, ctlVars, session>>

\* final_clip = concatenate_videoclips(subclips, method="compose")
CFV_Concatenate ==
    /\ pc = "loop"
    /\ Len(subclips) = ZipLen(segments, audio_items)
    /\ LET c == ConcatenateVideoclips(subclips)
       IN  IF c.err # "none"
           THEN /\ pc' = "raised"
                /\ err' = c.err
                /\ UNCHANGED final_clip
           ELSE /\ final_clip' = c.clip
                /\ pc' = "write"
                /\ UNCHANGED err
    /\ UNCHANGED <<base_clip, subclips, segments, audio_items, inputVars,
                   fileVars, dataVars, ctlVars, session>>

\* Cleanup: final_clip.close(); base_clip.close()
Cleanup(handle) == "closed"

\* final_clip.write_videofile(out_path, ...) succeeds; final_clip.close();
\* base_clip.close(); return out_path
CFV_Write ==
    /\ pc = "write"
    /\ outVideo' = [state |-> "complete",
                    duration |-> RenderedDuration(final_clip.duration)]
    /\ written' = written \union {FinalVideoPath}
    /\ base_clip' = Cleanup(base_clip)
    /\ pc' = "returned"
    /\ UNCHANGED <<subclips, final_clip, segments, audio_items, inputVars,
                   audioFiles, outAudio, dataVars, ctlVars, session, err>>

\* final_clip.write_videofile(out_path, ...) raises (encoder or disk): the
\* encoder may or may not have started the file; nothing after it runs
CFV_WriteFails ==
    /\ pc = "write"
    /\ \/ /\ outVideo' = [state |-> "partial", duration |-> NoRat]
          /\ written' = written \union {FinalVideoPath}
       \/ UNCHANGED <<outVideo, written>>
    /\ pc' = "raised"
    /\ err' = "IOError"
    /\ UNCHANGED <<base_clip, subclips, final_clip, segments, audio_items,
                   inputVars, audioFiles, outAudio, dataVars, ctlVars,
                   session>>

CFV_Next ==
    \/ CFV_Open
    \/ CFV_Iterate
    \/ CFV_Concatenate
    \/ CFV_Write
    \/ CFV_WriteFails

----------------------------------------------------------------------------
\* Text: a string is a sequence of characters

Whitespace == {" ", "\n", "\t"}

\* str.replace(old, new) for single characters
Replace(str, old, new) ==
    [k \in 1..Len(str) |-> IF str[k] = old THEN new ELSE str[k]]

RECURSIVE LStrip(_)
LStrip(str) ==
    IF str # <<>> /\ Head(str) \in Whitespace THEN LStrip(Tail(str)) ELSE str

RECURSIVE RStrip(_)
RStrip(str) ==
    IF str # <<>> /\ str[Len(str)] \in Whitespace
    THEN RStrip(SubSeq(str, 1, Len(str) - 1))
    ELSE str

\* str.strip()
Strip(str) == RStrip(LStrip(str))

----------------------------------------------------------------------------
\* The stages' functions

\* the entries numbered from 0, enumerate's default
load_srt_zero_based(subs) ==
    [i \in 1..Len(subs) |->
        Segment(i - 1, subs[i].start, subs[i].end,
                Strip(Replace(subs[i].content, "\n", " ")))]

\* load_srt: one Segment per parsed entry, in file order, numbered from 1
load_srt(subs) ==
    [i \in 1..Len(subs) |->
        Segment(i, subs[i].start, subs[i].end,
                Strip(Replace(subs[i].content, "\n", " ")))]

\* Translator.__init__: the key argument, else the environment, else ValueError
TranslatorInit(openai_api_key, environ) ==
    IF openai_api_key \/ environ.OPENAI_API_KEY THEN "none" ELSE "ValueError"

\* translate_text: resp.output_text.strip()
translate_text(output_text) == Strip(output_text)

\* the loop body of translate_segments: out.append(Segment(s.index, s.start,
\* s.end, text))
TranslateOne(outList, s, output_text) ==
    Append(outList, Segment(s.index, s.start, s.end, translate_text(output_text)))

Max(a, b) == IF a >= b THEN a ELSE b

NoVoice == "none"

NoVG == [constructed |-> FALSE, eleven |-> FALSE, cached_voice_id |-> NoVoice]

\* VoiceGenerator.__init__(out_dir, eleven_api_key): the keys come from the
\* arguments, else from the environment; OpenAIClient is a name the module
\* never binds, so building self.openai raises NameError whenever an OpenAI
\* key is found
VoiceGeneratorInit(eleven_api_key, openai_api_key, environ) ==
    LET ek == eleven_api_key \/ environ.ELEVEN_API_KEY
        ok == openai_api_key \/ environ.OPENAI_API_KEY
    IN  IF ok
        THEN [err |-> "NameError", vg |-> NoVG]
        ELSE [err |-> "none",
              vg |-> [constructed |-> TRUE, eleven |-> ek,
                      cached_voice_id |-> NoVoice]]

\* what the voice-clone request can come back with: a voice id, a response
\* without one, or a failure of the service
CloneReplies == {"v1", "no_id", "fails"}

\* ensure_voice(sample_wav_path) with clone_voice_from_sample inlined
ensure_voice(g, hasSample, reply) ==
    IF g.cached_voice_id # NoVoice
    THEN [err |-> "none", vg |-> g, voice_id |-> g.cached_voice_id]
    ELSE IF g.eleven /\ hasSample
    THEN IF reply = "fails"
         THEN [err |-> "ApiError", vg |-> g, voice_id |-> NoVoice]
         ELSE IF reply = "no_id"
         THEN [err |-> "RuntimeError", vg |-> g, voice_id |-> NoVoice]
         ELSE [err |-> "none", vg |-> [g EXCEPT !.cached_voice_id = reply],
               voice_id |-> reply]
    ELSE [err |-> "none", vg |-> g, voice_id |-> NoVoice]

\* shortest silent filler, in milliseconds
MinSilenceMs == 200

\* AudioSegment.silent(duration=max(200, int((seg.end - seg.start) * 1000)))
SilentDuration(seg) ==
    Rat(Max(MinSilenceMs, (seg.end - seg.start) * 1000), 1000)

\* the head of generate_audio_segments: "return" (None: the branch is not
\* taken), "ValueError" (no voice id), or "loop"
GenerateEntry(g, vid) ==
    IF ~g.eleven THEN "return"
    ELSE IF vid = NoVoice /\ g.cached_voice_id = NoVoice THEN "ValueError"
    ELSE "loop"

\* the dict appended for a segment whose file measures `dur`
ResultFor(seg, dur) == AudioItem(seg.index, SegPath(seg.index), dur)

\* the value written to a path of a file map
WriteFile(files, path, value) ==
    [q \in DOMAIN files \union {path} |-> IF q = path THEN value ELSE files[q]]

UploadVideoPath == <<"video", 0>>

UploadSrtPath == <<"srt", 0>>

SampleWavPath == <<"sample.wav", 0>>

----------------------------------------------------------------------------
\* The pipeline body, app.py:67-128.  An exception leaves the `with` block
\* (the temporary directory is removed) and ends the script run; Streamlit
\* shows it.

Step(name, next) ==
    /\ stage' = next
    /\ stagesRun' = stagesRun \union {name}
    /\ UNCHANGED <<tmpdir, outcome, message, displayed, err>>

Raise(name, e) ==
    /\ stage' = "idle"
    /\ stagesRun' = stagesRun \union {name}
    /\ tmpdir' = FALSE
    /\ outcome' = "failed"
    /\ message' = e
    /\ err' = e
    /\ UNCHANGED displayed

\* Save inputs
SaveInputs ==
    /\ stage = "save"
    /\ written' = written \union {UploadVideoPath, UploadSrtPath}
    /\ Step("save", "parse")
    /\ UNCHANGED <<cfvVars, inputVars, audioFiles, outVideo, outAudio,
                   dataVars, session>>

\* Step 1: segments = load_srt(srt_path)
ParseSrt ==
    /\ stage = "parse"
    /\ app_segments' = load_srt(srt)
    /\ Step("parse", "translator")
    /\ UNCHANGED <<cfvVars, inputVars, fileVars, out, segments_de,
                   sampleClip, vg, voice_id, results, session>>

\* Step 2: translator = Translator(openai_api_key=OPENAI_API_KEY); out = []
NewTranslator ==
    /\ stage = "translator"
    /\ LET e == TranslatorInit(keys.openai, env)
       IN  IF e # "none" THEN Raise("translate", e) ELSE Step("translate", "translate")
    /\ out' = <<>>
    /\ UNCHANGED <<cfvVars, inputVars, fileVars, app_segments, segments_de,
                   sampleClip, vg, voice_id, results, session>>

\* what the translation service can answer
RemoteOutputs == {<<"d", "e", "\n">>, <<" ">>}

\* translate_segments, one pass of the loop, the service answering
TranslateSegment ==
    /\ stage = "translate"
    /\ Len(out) < Len(app_segments)
    /\ \E output_text \in RemoteOutputs :
          out' = TranslateOne(out, app_segments[Len(out) + 1], output_text)
    /\ Step("translate", "translate")
    /\ UNCHANGED <<cfvVars, inputVars, fileVars, app_segments, segments_de,
                   sampleClip, vg, voice_id, results, session>>

\* translate_segments, one pass of the loop, the service failing
TranslateFails ==
    /\ stage = "translate"
    /\ Len(out) < Len(app_segments)
    /\ Raise("translate", "ApiError")
    /\ UNCHANGED <<cfvVars, inputVars, fileVars, dataVars, session>>

\* return out
TranslateReturn ==
    /\ stage = "translate"
    /\ Len(out) = Len(app_segments)
    /\ segments_de' = out
    /\ Step("translate", "sample")
    /\ UNCHANGED <<cfvVars, inputVars, fileVars, app_segments, out,
                   sampleClip, vg, voice_id, results, session>>

\* Step 3: the clip is opened, the first seconds of its audio are written
\* to sample.wav; finally: clip.close()
ExtractSample ==
    /\ stage = "sample"
    /\ sampleClip' = "closed"
    /\ written' = written \union {SampleWavPath}
    /\ Step("sample", "voicegen")
    /\ UNCHANGED <<cfvVars, inputVars, audioFiles, outVideo, outAudio,
                   app_segments, out, segments_de, vg, voice_id, results,
                   session>>

\* Step 3: the video has no audio track or the write fails; finally:
\* clip.close()
ExtractSampleFails ==
    /\ stage = "sample"
    /\ sampleClip' = "closed"
    /\ \E e \in {"AttributeError", "IOError"} : Raise("sample", e)
    /\ UNCHANGED <<cfvVars, inputVars, fileVars, app_segments, out,
                   segments_de, vg, voice_id, results, session>>

\* Step 4: vg = VoiceGenerator(out_dir="output/audio",
\*                             eleven_api_key=ELEVEN_API_KEY)
NewVoiceGenerator ==
    /\ stage = "voicegen"
    /\ LET r == VoiceGeneratorInit(keys.eleven, FALSE, env)
       IN  /\ vg' = r.vg
           /\ IF r.err # "none"
              THEN Raise("voicegen", r.err)
              ELSE Step("voicegen", "ensure_voice")
    /\ UNCHANGED <<cfvVars, inputVars, fileVars, app_segments, out,
                   segments_de, sampleClip, voice_id, results, session>>

\* Step 4: voice_id = vg.ensure_voice(sample_wav)
EnsureVoice ==
    /\ stage = "ensure_voice"
    /\ \E reply \in CloneReplies :
          LET r == ensure_voice(vg, TRUE, reply)
          IN  /\ vg' = r.vg
              /\ voice_id' = r.voice_id
              /\ IF r.err # "none"
                 THEN Raise("clone", r.err)
                 ELSE Step("clone", "generate")
    /\ UNCHANGED <<cfvVars, inputVars, fileVars, app_segments, out,
                   segments_de, sampleClip, results, session>>

\* measured durations a synthesized clip can have (seconds)
SynthDurs == {4, 5}

\* Step 5: generate_audio_segments is entered: results = []
GenerateBegin ==
    /\ stage = "generate"
    /\ LET e == GenerateEntry(vg, voice_id)
       IN  /\ e # "return"   \* the client exists: the pipeline passes a key
           /\ IF e = "ValueError"
              THEN Raise("synthesize", e)
              ELSE Step("synthesize", "synthesize")
    /\ results' = <<>>
    /\ UNCHANGED <<cfvVars, inputVars, fileVars, app_segments, out,
                   segments_de, sampleClip, vg, voice_id, session>>

\* one pass of the loop: the text is synthesized (or silence is exported),
\* the file is written, measured, and its item appended
SynthesizeSegment ==
    /\ stage = "synthesize"
    /\ Len(results) < Len(segments_de)
    /\ LET seg == segments_de[Len(results) + 1]
           text == Strip(seg.text)
       IN  \E dur \in IF text # <<>>
                      THEN {FromInt(d) : d \in SynthDurs}
                      ELSE {SilentDuration(seg)} :
              /\ audioFiles' = WriteFile(audioFiles, SegPath(seg.index), dur)
              /\ written' = written \union {SegPath(seg.index)}
              /\ results' = Append(results,
                                   ResultFor(seg, audioFiles'[SegPath(seg.index)]))
    /\ Step("synthesize", "synthesize")
    /\ UNCHANGED <<cfvVars, inputVars, outVideo, outAudio, app_segments, out,
                   segments_de, sampleClip, vg, voice_id, session>>

\* one pass of the loop: _synthesize_eleven raises
SynthesizeFails ==
    /\ stage = "synthesize"
    /\ Len(results) < Len(segments_de)
    /\ Strip(segments_de[Len(results) + 1].text) # <<>>
    /\ Raise("synthesize", "ApiError")
    /\ UNCHANGED <<cfvVars, inputVars, fileVars, dataVars, session>>

\* return results; Step 6: ensure_dir("output"); create_final_video(
\* video_path, segments_de, audio_items, out_path) is called
GenerateReturn ==
    /\ stage = "synthesize"
    /\ Len(results) = Len(segments_de)
    /\ segments' = segments_de
    /\ audio_items' = results
    /\ pc' = "entry"
    /\ Step("synthesize", "assemble")
    /\ UNCHANGED <<base_clip, subclips, final_clip, inputVars, fileVars,
                   dataVars, session>>

\* create_final_video returned out_path
AssembleReturns ==
    /\ stage = "assemble"
    /\ pc = "returned"
    /\ pc' = "idle"
    /\ Step("assemble", "export")
    /\ UNCHANGED <<base_clip, subclips, final_clip, segments, audio_items,
                   inputVars, fileVars, dataVars, session>>

\* create_final_video raised
AssembleRaises ==
    /\ stage = "assemble"
    /\ pc = "raised"
    /\ pc' = "idle"
    /\ Raise("assemble", err)
    /\ UNCHANGED <<base_clip, subclips, final_clip, segments, audio_items,
                   inputVars, fileVars, dataVars, session>>

\* Persist results in session_state
Persist(sess, out_path, audio_out_path) ==
    [sess EXCEPT !.video_path = out_path, !.audio_path = audio_out_path,
                 !.video_ready = TRUE]

\* Step 7: the audio track is exported; the results are persisted; the
\* `with` block ends; the result block is rendered
ExportAndPersist ==
    /\ stage = "export"
    /\ outAudio' = "complete"
    /\ written' = written \union {FinalAudioPath}
    /\ session' = Persist(session, FinalVideoPath, FinalAudioPath)
    /\ message' = "Translation complete!"
    /\ outcome' = "completed"
    /\ tmpdir' = FALSE
    /\ stage' = "idle"
    /\ stagesRun' = stagesRun \union {"export", "persist"}
    /\ displayed' = session'.video_ready
    /\ UNCHANGED <<cfvVars, inputVars, audioFiles, outVideo, dataVars, err>>

\* Step 7: write_audiofile raises; finally: final_audio.close()
ExportFails ==
    /\ stage = "export"
    /\ \/ /\ outAudio' = "partial"
          /\ written' = written \union {FinalAudioPath}
       \/ UNCHANGED <<outAudio, written>>
    /\ Raise("export", "IOError")
    /\ UNCHANGED <<cfvVars, inputVars, audioFiles, outVideo, dataVars,
                   session>>

\* the pipeline body up to the construction of the VoiceGenerator
PipeHeadNext ==
    \/ SaveInputs
    \/ ParseSrt
    \/ NewTranslator
    \/ TranslateSegment
    \/ TranslateFails
    \/ TranslateReturn
    \/ ExtractSample
    \/ ExtractSampleFails
    \/ NewVoiceGenerator

\* the rest of it
PipeTailNext ==
    \/ EnsureVoice
    \/ GenerateBegin
    \/ SynthesizeSegment
    \/ SynthesizeFails
    \/ GenerateReturn
    \/ AssembleReturns
    \/ AssembleRaises
    \/ ExportAndPersist
    \/ ExportFails

----------------------------------------------------------------------------
\* Initial values

\* the flag initialised to True
NewSession_ready == [video_ready |-> TRUE, video_path |-> NoPath, audio_path |-> NoPath]

\* st.session_state after app.py:39-44
NewSession == [video_ready |-> FALSE, video_path |-> NoPath, audio_path |-> NoPath]

\* no create_final_video call is active
NoCall ==
    /\ pc = "idle"
    /\ base_clip = "unopened"
    /\ subclips = <<>>
    /\ final_clip = NoClip
    /\ segments = <<>>
    /\ audio_items = <<>>

\* the locals of a script run before the pipeline body
FreshLocals ==
    /\ app_segments = <<>>
    /\ out = <<>>
    /\ segments_de = <<>>
    /\ sampleClip = "unopened"
    /\ vg = NoVG
    /\ voice_id = NoVoice
    /\ results = <<>>

\* the output directory holds nothing yet
NoOutputs ==
    /\ audioFiles = <<>>
    /\ outVideo = [state |-> "absent", duration |-> NoRat]
    /\ outAudio = "absent"
    /\ written = {}

\* subtitle files drawn: entries with these time windows and contents
SrtWindows == {<<0, 4>>, <<6, 6>>}

SrtContents == {<<"H", "i", "\n", "!">>, <<" ">>}

SrtEntries ==
    {[start |-> w[1], end |-> w[2], content |-> c] :
        w \in SrtWindows, c \in SrtContents}

SrtFiles == UNION {[1..n -> SrtEntries] : n \in 0..MaxN}

NoKeys == [openai |-> FALSE, eleven |-> FALSE]

NoEnviron == [OPENAI_API_KEY |-> FALSE, ELEVEN_API_KEY |-> FALSE]

\* Spec: create_final_video called on drawn arguments

\* index fields of a list of n elements, in ascending or descending order
IndexAt(order, k, n) == IF order = "asc" THEN k ELSE n + 1 - k

Orders(n) == IF n >= 2 THEN {"asc", "desc"} ELSE {"asc"}

Init ==
    /\ videoDur \in SourceDurs
    /\ \E n \in 0..MaxN :
       \E st \in [1..n -> Starts], vd \in [1..n -> VideoDurs],
          ad \in [1..n -> AudioDurs] :
       \E so \in Orders(n), ao \in Orders(n) :
          /\ segments = [k \in 1..n |->
                Segment(IndexAt(so, k, n), st[k], st[k] + vd[k], <<"d", "e">>)]
          /\ audio_items = [k \in 1..n |->
                AudioItem(IndexAt(ao, k, n), SegPath(IndexAt(ao, k, n)),
                          FromInt(ad[k]))]
          /\ audioFiles = [q \in {SegPath(IndexAt(ao, k, n)) : k \in 1..n} |->
                FromInt(ad[CHOOSE k \in 1..n : SegPath(IndexAt(ao, k, n)) = q])]
    /\ pc = "entry"
    /\ base_clip = "unopened"
    /\ subclips = <<>>
    /\ final_clip = NoClip
    /\ outVideo = [state |-> "absent", duration |-> NoRat]
    /\ outAudio = "absent"
    /\ written = {}
    /\ FreshLocals
    /\ srt = <<>>
    /\ env = NoEnviron
    /\ keys = NoKeys
    /\ uploaded = [video |-> TRUE, srt |-> FALSE]
    /\ run = FALSE
    /\ session = NewSession
    /\ stage = "idle"
    /\ tmpdir = FALSE
    /\ outcome = "none"
    /\ message = "none"
    /\ displayed = FALSE
    /\ stagesRun = {}
    /\ err = "none"

Next == CFV_Next

Spec == Init /\ [][Next]_vars

\* PipeSpec: the pipeline body entered with both uploads saved and both keys
\* passed as arguments

PipeInit ==
    /\ videoDur \in SourceDurs
    /\ srt \in SrtFiles
    /\ env \in {[OPENAI_API_KEY |-> b, ELEVEN_API_KEY |-> TRUE] : b \in BOOLEAN}
    /\ keys = [openai |-> TRUE, eleven |-> TRUE]
    /\ uploaded = [video |-> TRUE, srt |-> TRUE]
    /\ run = TRUE
    /\ session = NewSession
    /\ NoCall
    /\ FreshLocals
    /\ NoOutputs
    /\ stage = "save"
    /\ tmpdir = TRUE
    /\ outcome = "running"
    /\ message = "none"
    /\ displayed = FALSE
    /\ stagesRun = {}
    /\ err = "none"

PipeNext == PipeHeadNext \/ PipeTailNext \/ CFV_Next

PipeSpec == PipeInit /\ [][PipeNext]_vars

----------------------------------------------------------------------------
\* AppSpec: the script app.py.  Streamlit runs it from the top on every
\* interaction; a Run click is the run in which st.button returns True.

\* OPENAI_API_KEY = os.getenv(...); ELEVEN_API_KEY = os.getenv(...)
KeysFrom(environ) ==
    [openai |-> environ.OPENAI_API_KEY, eleven |-> environ.ELEVEN_API_KEY]

\* reset previous outputs when user starts a new run
ResetSession(sess) ==
    [sess EXCEPT !.video_ready = FALSE, !.video_path = NoPath,
                 !.audio_path = NoPath]

\* the test passes as soon as one of the two files is there
InputsMissing_both(up) == ~up.video /\ ~up.srt

\* if not uploaded_video or not uploaded_srt:
InputsMissing(up) == ~up.video \/ ~up.srt

\* if not OPENAI_API_KEY or not ELEVEN_API_KEY:
CredentialsMissing(k) == ~k.openai \/ ~k.eleven

\* a script run starts with no locals
ResetLocals ==
    /\ app_segments' = <<>>
    /\ out' = <<>>
    /\ segments_de' = <<>>
    /\ sampleClip' = "unopened"
    /\ vg' = NoVG
    /\ voice_id' = NoVoice
    /\ results' = <<>>

\* the Run button is clicked: reset, validation, and entry of the `with` block
RunClick ==
    /\ stage = "idle"
    /\ run' = TRUE
    /\ keys' = KeysFrom(env)
    /\ session' = ResetSession(session)
    /\ stagesRun' = {}
    /\ written' = {}
    /\ err' = "none"
    /\ displayed' = FALSE
    /\ ResetLocals
    /\ IF InputsMissing(uploaded)
       THEN /\ message' = "Please upload both a video and an SRT file."
            /\ outcome' = "aborted"
            /\ UNCHANGED <<stage, tmpdir>>
       ELSE IF CredentialsMissing(keys')
       THEN /\ message' = "Missing API keys. Add them to your .env file."
            /\ outcome' = "aborted"
            /\ UNCHANGED <<stage, tmpdir>>
       ELSE /\ message' = "none"
            /\ outcome' = "running"
            /\ stage' = "save"
            /\ tmpdir' = TRUE
    /\ UNCHANGED <<cfvVars, videoDur, srt, env, uploaded, audioFiles,
                   outVideo, outAudio>>

\* a file is uploaded or removed: the script reruns with run = False and
\* renders the result block if session_state.video_ready
Interact ==
    /\ stage = "idle"
    /\ \E v \in BOOLEAN, d \in SourceDurs, f \in {<<"none">>} \union {<<"file", x>> : x \in SrtFiles} :
          /\ uploaded' = [video |-> v, srt |-> f[1] = "file"]
          /\ videoDur' = IF v THEN d ELSE 0
          /\ srt' = IF f[1] = "file" THEN f[2] ELSE <<>>
          /\ <<uploaded', videoDur', srt'>> # <<uploaded, videoDur, srt>>
    /\ run' = FALSE
    /\ keys' = KeysFrom(env)
    /\ message' = "none"
    /\ displayed' = session.video_ready
    /\ ResetLocals
    /\ UNCHANGED <<cfvVars, env, fileVars, stage, tmpdir, outcome, stagesRun,
                   session, err>>

AppInit ==
    /\ env \in [OPENAI_API_KEY : BOOLEAN, ELEVEN_API_KEY : BOOLEAN]
    /\ keys = KeysFrom(env)
    /\ uploaded = [video |-> FALSE, srt |-> FALSE]
    /\ videoDur = 0
    /\ srt = <<>>
    /\ run = FALSE
    /\ session = NewSession
    /\ NoCall
    /\ FreshLocals
    /\ NoOutputs
    /\ stage = "idle"
    /\ tmpdir = FALSE
    /\ outcome = "none"
    /\ message = "none"
    /\ displayed = FALSE
    /\ stagesRun = {}
    /\ err = "none"

AppNext == RunClick \/ Interact \/ PipeHeadNext

AppSpec == AppInit /\ [][AppNext]_vars

----------------------------------------------------------------------------
\* Properties of create_final_video (checked under Spec)

\* the natural duration end - start of the k-th segment's slice
NaturalDur(k) == FromInt(segments[k].end - segments[k].start)

\* the measured duration of the k-th audio item's clip
AudioDur(k) == audioFiles[audio_items[k].path]

\* one frame of the rendered file, in seconds
FramePeriod == <<1, Fps>>

\* the call was made on equal-length lists and returned
Returned == pc = "returned" /\ Len(segments) = Len(audio_items)

\* C1, as claimed: whenever create_final_video returns, the duration of the
\* concatenated video equals the sum of the audio items' durations.
C1_TotalIsAudioSum ==
    Returned =>
        final_clip.duration =
            RatSum([k \in 1..Len(audio_items) |-> audio_items[k].duration])

\* C1, amended: whenever create_final_video returns, the duration of the
\* concatenated video is the sum, over the pairs, of the audio duration where
\* it is positive and of the slice's natural duration where it is 0; the
\* rendered file is at most one frame period longer.
C1_TotalDuration ==
    Returned =>
        /\ final_clip.duration =
              RatSum([k \in 1..Len(audio_items) |->
                         IF audio_items[k].duration # FromInt(0)
                         THEN audio_items[k].duration
                         ELSE NaturalDur(k)])
        /\ (\A k \in 1..Len(audio_items) : audio_items[k].duration # FromInt(0))
              => final_clip.duration =
                    RatSum([k \in 1..Len(audio_items) |-> audio_items[k].duration])
        /\ RatLeq(final_clip.duration, outVideo.duration)
        /\ RatLeq(RatSub(outVideo.duration, final_clip.duration), FramePeriod)

\* a call returned whose two slices were both retimed, one slower, one faster
C1_Witness ==
    /\ Returned
    /\ Len(subclips) = 2
    /\ subclips[1].sped /\ subclips[2].sped
    /\ NaturalDur(1) # NaturalDur(2)
    /\ final_clip.duration = RatAdd(AudioDur(1), AudioDur(2))

\* C2, as claimed: every assembled slice lasts as long as its audio clip, up
\* to one frame period.
C2_SliceMatchesAudio ==
    \A k \in 1..Len(subclips) :
        RatLeq(RatAbs(RatSub(subclips[k].duration, AudioDur(k))), FramePeriod)

\* C2, amended: every assembled slice whose audio clip has a positive
\* duration lasts as long as that clip, up to one frame period; a slice whose
\* audio clip has duration 0 keeps its natural duration.
C2_SliceDuration ==
    \A k \in 1..Len(subclips) :
        IF AudioDur(k) # FromInt(0)
        THEN RatLeq(RatAbs(RatSub(subclips[k].duration, AudioDur(k))), FramePeriod)
        ELSE subclips[k].duration = NaturalDur(k)

\* a slice stretched from 4 s to its 5 s audio clip has been appended
C2_Witness ==
    \E k \in 1..Len(subclips) :
        /\ subclips[k].sped
        /\ NaturalDur(k) = FromInt(4)
        /\ AudioDur(k) = FromInt(5)
        /\ subclips[k].duration = FromInt(5)

\* C3: the k-th slice, in the list and in the output timeline, is the k-th
\* segment's window carrying the k-th audio item's audio, whatever the index
\* fields say; the timeline lays the slices end to end in that order.
C3_InputOrder ==
    /\ \A k \in 1..Len(subclips) :
          /\ subclips[k].start = segments[k].start
          /\ subclips[k].end = segments[k].end
          /\ subclips[k].audio = audio_items[k].path
    /\ pc \in {"write", "returned"} =>
          /\ Len(final_clip.timeline) = ZipLen(segments, audio_items)
          /\ \A k \in 1..Len(final_clip.timeline) :
                /\ final_clip.timeline[k].clip = subclips[k]
                /\ final_clip.timeline[k].t_start =
                      RatSum([j \in 1..(k - 1) |-> subclips[j].duration])

\* a call returned whose segments came with descending index fields and
\* whose audio items came with ascending ones
C3_Witness ==
    /\ Returned
    /\ Len(segments) = 2
    /\ segments[1].index > segments[2].index
    /\ audio_items[1].index < audio_items[2].index
    /\ segments[1].start # segments[2].start
    /\ final_clip.timeline[2].clip.audio = audio_items[2].path

\* C4: a pair whose audio clip has duration 0 is never divided by: its slice
\* is appended unretimed at its natural duration, the loop goes on, and if
\* the call stops at such a pair it is with subclip's ValueError.
C4_ZeroAudio ==
    \A k \in 1..ZipLen(segments, audio_items) :
        AudioDur(k) = FromInt(0) =>
            /\ k <= Len(subclips) =>
                  /\ ~subclips[k].sped
                  /\ subclips[k].factor = NoRat
                  /\ subclips[k].duration = NaturalDur(k)
            /\ (pc = "raised" /\ k = Len(subclips) + 1) =>
                  /\ err = "ValueError"
                  /\ segments[k].start > videoDur

\* a call returned whose first pair had a zero-length audio clip and a 4 s
\* window, and whose second pair was processed after it
C4_Witness ==
    /\ Returned
    /\ Len(subclips) = 2
    /\ AudioDur(1) = FromInt(0)
    /\ subclips[1].duration = FromInt(4)
    /\ subclips[2].sped

\* C5: a slice is retimed exactly when its audio duration is positive and
\* differs from its natural duration; the factor is natural / audio, below 1
\* exactly when the audio is longer and above 1 exactly when it is shorter;
\* 4 s against 5 s gives 0.8 and 5 s against 4 s gives 1.25.
C5_SpeedFactor ==
    \A k \in 1..Len(subclips) :
        LET v == NaturalDur(k)
            a == AudioDur(k)
            f == subclips[k].factor
        IN  /\ subclips[k].sped <=> (~RatLeq(a, FromInt(0)) /\ a # v)
            /\ subclips[k].sped =>
                  /\ f[1] * a[1] * v[2] = v[1] * f[2] * a[2]
                  /\ (f[1] < f[2]) <=> ~RatLeq(a, v)
                  /\ (f[1] > f[2]) <=> ~RatLeq(v, a)
            /\ (v = FromInt(4) /\ a = FromInt(5)) => f = Rat(8, 10)
            /\ (v = FromInt(5) /\ a = FromInt(4)) => f = Rat(125, 100)

\* both examples have been processed: 4 s against 5 s, then 5 s against 4 s
C5_Witness ==
    /\ Len(subclips) = 2
    /\ NaturalDur(1) = FromInt(4) /\ AudioDur(1) = FromInt(5)
    /\ subclips[1].factor = <<4, 5>>
    /\ NaturalDur(2) = FromInt(5) /\ AudioDur(2) = FromInt(4)
    /\ subclips[2].factor = <<5, 4>>

\* C8: whenever create_final_video has ended, by return or by exception, the
\* source clip it opened is closed.
C8_HandleReleased ==
    pc \in {"returned", "raised"} => base_clip = "closed"

----------------------------------------------------------------------------
\* Properties of the pipeline body (checked under PipeSpec)

\* the steps of a complete run
AllStages ==
    {"save", "parse", "translate", "sample", "voicegen", "clone",
     "synthesize", "assemble", "export", "persist"}

\* C7: when a run has ended on an exception, no partial or final video is
\* left in the output directory and no per-segment audio file is left.
C7_NoOutputsAfterFailure ==
    outcome = "failed" =>
        /\ outVideo.state = "absent"
        /\ DOMAIN audioFiles = {}

\* C9: load_srt numbers the entries 1..N in file order and keeps their
\* times; translate_segments returns N segments with the same index, start
\* and end in the same order and leaves its input as load_srt built it;
\* generate_audio_segments returns N items, the i-th carrying the index and
\* the file of the i-th segment.
C9_IndexAligned ==
    /\ "parse" \in stagesRun =>
          /\ Len(app_segments) = Len(srt)
          /\ \A i \in 1..Len(srt) :
                /\ app_segments[i].index = i
                /\ app_segments[i].start = srt[i].start
                /\ app_segments[i].end = srt[i].end
                /\ app_segments[i].text = Strip(Replace(srt[i].content, "\n", " "))
    /\ \A i \in 1..Len(out) :
          /\ i <= Len(app_segments)
          /\ out[i].index = app_segments[i].index
          /\ out[i].start = app_segments[i].start
          /\ out[i].end = app_segments[i].end
    /\ "sample" \in stagesRun =>
          /\ Len(segments_de) = Len(srt)
          /\ \A i \in 1..Len(srt) :
                /\ segments_de[i].index = i
                /\ segments_de[i].start = srt[i].start
                /\ segments_de[i].end = srt[i].end
    /\ \A i \in 1..Len(results) :
          /\ i <= Len(segments_de)
          /\ results[i].index = segments_de[i].index
          /\ results[i].path = SegPath(i)
    /\ "assemble" \in stagesRun =>
          /\ Len(audio_items) = Len(srt)
          /\ segments = segments_de
          /\ \A i \in 1..Len(srt) : audio_items[i].index = i

\* a two-entry file went through all three stages; one translation came
\* back empty and its item is the silent filler
C9_Witness ==
    /\ stage = "assemble"
    /\ Len(srt) = 2
    /\ Len(audio_items) = 2
    /\ segments_de[1].text = <<>>
    /\ segments_de[2].text = <<"d", "e">>
    /\ audio_items[1].duration = SilentDuration(segments_de[1])
    /\ audio_items[2].index = 2

----------------------------------------------------------------------------
\* Properties of the script (checked under AppSpec)

\* C6: a Run click with a file or a credential missing ends at once with an
\* error on the page: no step of the pipeline has run, no temporary
\* directory exists and no file has been written.
C6_AbortsBeforeProcessing ==
    (run /\ (~uploaded.video \/ ~uploaded.srt \/ ~env.OPENAI_API_KEY
                              \/ ~env.ELEVEN_API_KEY)) =>
        /\ outcome = "aborted"
        /\ stage = "idle"
        /\ message \in {"Please upload both a video and an SRT file.",
                        "Missing API keys. Add them to your .env file."}
        /\ stagesRun = {}
        /\ written = {}
        /\ ~tmpdir

\* Run was clicked with both files uploaded and the voice key missing
C6_Witness ==
    /\ run
    /\ uploaded.video /\ uploaded.srt
    /\ env.OPENAI_API_KEY /\ ~env.ELEVEN_API_KEY
    /\ outcome = "aborted"
    /\ message = "Missing API keys. Add them to your .env file."

====
